---- MODULE Spec2Model ----
(***************************************************************************)
(* AST normalization pass of jsonata-rs (src/src/process.rs) over the tree *)
(* type of src/src/ast.rs.  process_ast is a pure recursive function over  *)
(* an owned tree: it is modelled as a recursive operator, and applied by   *)
(* one action to an input tree drawn from a bounded set of parser trees.   *)
(***************************************************************************)
EXTENDS Integers, Sequences, FiniteSets, TLC

VARIABLES input, result, pc

vars == <<input, result, pc>>

(***************************************************************************)
(* Bound of the model: nesting depth of the operators wrapped around a     *)
(* leaf of the input tree.                                                 *)
(***************************************************************************)
MaxDepth == 2

(***************************************************************************)
(* ast.rs: Node and Node::new.  One record shape for every NodeKind:       *)
(*   kind     the variant tag                                              *)
(*   op       the BinaryOp / UnaryOp tag ("" when the variant has none)    *)
(*   text     the String payload of String / Name / Var                    *)
(*   num      the payload of Number (Bool: 0 or 1)                         *)
(*   children the Box<Node> payloads, in declaration order                 *)
(*   list     the Vec<Node> payload (Block, ArrayConstructor, Function     *)
(*            args, Lambda args, Path steps)                               *)
(*   pairs    the Object payload: sequence of <<key, value>>               *)
(*   terms    the SortTerms payload: sequence of <<expr, descending>>      *)
(* Option<T> is a sequence: <<>> for None, <<v>> for Some(v).              *)
(***************************************************************************)
DefaultPosition == 0

NewNode(kind, op, text, num, children, list, pairs, terms, position) ==
    [kind |-> kind, op |-> op, text |-> text, num |-> num,
     children |-> children, list |-> list, pairs |-> pairs, terms |-> terms,
     position |-> position,
     keep_array |-> FALSE, cons_array |-> FALSE, keep_singleton_array |-> FALSE,
     group_by |-> <<>>, predicates |-> <<>>, stages |-> <<>>]

\* impl Default for Node
DefaultNode == NewNode("Empty", "", "", 0, <<>>, <<>>, <<>>, <<>>, DefaultPosition)

\* NodeKind constructors
Name(s, p)     == NewNode("Name", "", s, 0, <<>>, <<>>, <<>>, <<>>, p)
Var(s, p)      == NewNode("Var", "", s, 0, <<>>, <<>>, <<>>, <<>>, p)
String(s, p)   == NewNode("String", "", s, 0, <<>>, <<>>, <<>>, <<>>, p)
Number(n, p)   == NewNode("Number", "", "", n, <<>>, <<>>, <<>>, <<>>, p)
Bool(b, p)     == NewNode("Bool", "", "", IF b THEN 1 ELSE 0, <<>>, <<>>, <<>>, <<>>, p)
Null(p)        == NewNode("Null", "", "", 0, <<>>, <<>>, <<>>, <<>>, p)
Parent(p)      == NewNode("Parent", "", "", 0, <<>>, <<>>, <<>>, <<>>, p)
Wildcard(p)    == NewNode("Wildcard", "", "", 0, <<>>, <<>>, <<>>, <<>>, p)
Minus(v, p)    == NewNode("Unary", "Minus", "", 0, <<v>>, <<>>, <<>>, <<>>, p)
ArrayConstructor(exprs, p) ==
    NewNode("Unary", "ArrayConstructor", "", 0, <<>>, exprs, <<>>, <<>>, p)
ObjectConstructor(object, p) ==
    NewNode("Unary", "ObjectConstructor", "", 0, <<>>, <<>>, object, <<>>, p)
Binary(op, lhs, rhs, p) == NewNode("Binary", op, "", 0, <<lhs, rhs>>, <<>>, <<>>, <<>>, p)
GroupBy(lhs, object, p) == NewNode("GroupBy", "", "", 0, <<lhs>>, <<>>, object, <<>>, p)
OrderBy(lhs, terms, p)  == NewNode("OrderBy", "", "", 0, <<lhs>>, <<>>, <<>>, terms, p)
Block(exprs, p)         == NewNode("Block", "", "", 0, <<>>, exprs, <<>>, <<>>, p)
Function(proc, args, p) == NewNode("Function", "", "", 0, <<proc>>, args, <<>>, <<>>, p)
Lambda(args, body, p)   == NewNode("Lambda", "", "", 0, <<body>>, args, <<>>, <<>>, p)
\* falsy / delete are Option<Box<Node>>: branches is <<cond, truthy>> or <<cond, truthy, falsy>>
Ternary(branches, p)    == NewNode("Ternary", "", "", 0, branches, <<>>, <<>>, <<>>, p)
Transform(parts, p)     == NewNode("Transform", "", "", 0, parts, <<>>, <<>>, <<>>, p)
\* generated by the pass
Path(steps, p)          == NewNode("Path", "", "", 0, <<>>, steps, <<>>, <<>>, p)
Filter(expr, p)         == NewNode("Filter", "", "", 0, <<expr>>, <<>>, <<>>, <<>>, p)
Sort(terms, p)          == NewNode("Sort", "", "", 0, <<>>, <<>>, <<>>, terms, p)

(***************************************************************************)
(* Result<Node>: Ok(value), Err(error) with the error's position, or the   *)
(* unwinding of a panic (unimplemented!), which returns nothing.           *)
(***************************************************************************)
Ok(v)         == [tag |-> "Ok", value |-> v, error |-> "", position |-> DefaultPosition]
Err(e, p)     == [tag |-> "Err", value |-> DefaultNode, error |-> e, position |-> p]
Panic(msg)    == [tag |-> "Panic", value |-> DefaultNode, error |-> msg, position |-> DefaultPosition]
NoResult      == [tag |-> "None", value |-> DefaultNode, error |-> "", position |-> DefaultPosition]

RECURSIVE process_ast(_)
RECURSIVE ProcessVec(_)
RECURSIVE ProcessObject(_)
RECURSIVE ProcessSortTerms(_)

\* for expr in exprs { *expr = process_ast(take(expr))? }
ProcessVec(exprs) ==
    IF exprs = <<>> THEN Ok(<<>>)
    ELSE LET h == process_ast(Head(exprs)) IN
         IF h.tag # "Ok" THEN h
         ELSE LET t == ProcessVec(Tail(exprs)) IN
              IF t.tag # "Ok" THEN t ELSE Ok(<<h.value>> \o t.value)

\* for pair in object { *pair = (process_ast(key)?, process_ast(value)?) }
ProcessObject(object) ==
    IF object = <<>> THEN Ok(<<>>)
    ELSE LET k == process_ast(Head(object)[1]) IN
         IF k.tag # "Ok" THEN k
         ELSE LET v == process_ast(Head(object)[2]) IN
              IF v.tag # "Ok" THEN v
              ELSE LET t == ProcessObject(Tail(object)) IN
                   IF t.tag # "Ok" THEN t
                   ELSE Ok(<< <<k.value, v.value>> >> \o t.value)

\* for pair in rhs { *pair = (process_ast(take(pair.0))?, pair.1) }
ProcessSortTerms(terms) ==
    IF terms = <<>> THEN Ok(<<>>)
    ELSE LET e == process_ast(Head(terms)[1]) IN
         IF e.tag # "Ok" THEN e
         ELSE LET t == ProcessSortTerms(Tail(terms)) IN
              IF t.tag # "Ok" THEN t
              ELSE Ok(<< <<e.value, Head(terms)[2]>> >> \o t.value)

\* Turn a Name into a Path with a single step
process_name(node) ==
    Ok([Path(<<node>>, node.position) EXCEPT !.keep_singleton_array = node.keep_array])

process_block(node) ==
    LET exprs == ProcessVec(node.list) IN
    IF exprs.tag # "Ok" THEN exprs ELSE Ok([node EXCEPT !.list = exprs.value])

\* process_ternary and process_transform: the two boxed children, then the optional third
ProcessBoxes(node) ==
    LET parts == ProcessVec(node.children) IN
    IF parts.tag # "Ok" THEN parts ELSE Ok([node EXCEPT !.children = parts.value])

process_ternary(node) == ProcessBoxes(node)

process_transform(node) == ProcessBoxes(node)

process_unary(node) ==
    CASE node.op = "Minus" ->
           LET r == process_ast(node.children[1]) IN
           IF r.tag # "Ok" THEN r
           ELSE IF r.value.kind = "Number"
                THEN Ok([r.value EXCEPT !.num = -r.value.num])
                ELSE Ok(Minus(r.value, node.position))
      [] node.op = "ArrayConstructor" ->
           LET exprs == ProcessVec(node.list) IN
           IF exprs.tag # "Ok" THEN exprs ELSE Ok([node EXCEPT !.list = exprs.value])
      [] node.op = "ObjectConstructor" ->
           LET object == ProcessObject(node.pairs) IN
           IF object.tag # "Ok" THEN object ELSE Ok([node EXCEPT !.pairs = object.value])

\* The loop over the steps of process_path: the first literal Number/Bool/Null step
InvalidSteps(steps) ==
    {i \in DOMAIN steps : steps[i].kind \in {"Number", "Bool", "Null"}}

FirstInvalidStep(steps) ==
    CHOOSE i \in InvalidSteps(steps) : \A j \in InvalidSteps(steps) : i <= j

\* One iteration of the loop over the steps of process_path, on a valid step
RewriteStep(step, step_index, last_index) ==
    IF step.kind = "String"
    THEN [step EXCEPT !.kind = "Name"]
    ELSE IF step.kind = "Unary" /\ step.op = "ArrayConstructor"
              /\ (step_index = 1 \/ step_index = last_index)
         THEN [step EXCEPT !.cons_array = TRUE]
         ELSE step

\* keep_singleton_array = keep_singleton_array || step.keep_array, over the steps
AnyKeepArray(steps) == \E i \in DOMAIN steps : steps[i].keep_array

\* rest.stages = rest.predicates.take()
PredicatesToStages(rest) == [rest EXCEPT !.stages = rest.predicates, !.predicates = <<>>]

\* Mutant of StartPath: always builds a fresh Path node around the left steps
StartPath_Fresh(left_step, position) ==
    Path(IF left_step.kind = "Path" THEN left_step.list ELSE <<left_step>>, position)

\* If the left_step is a path itself, start with that. Otherwise, start a new path
StartPath(left_step, position) ==
    IF left_step.kind = "Path" THEN left_step ELSE Path(<<left_step>>, position)

\* Mutant of MergeSteps: pushes the rest as one step even when it is a Path
MergeSteps_NoFlatten(steps, rest) == Append(steps, PredicatesToStages(rest))

\* If the rest is a path, merge in the steps; otherwise push it as one step
MergeSteps(steps, rest) ==
    IF rest.kind = "Path"
    THEN steps \o rest.list
    ELSE Append(steps, PredicatesToStages(rest))

process_path(position, lhs, rhs) ==
    LET left_step == process_ast(lhs) IN
    IF left_step.tag # "Ok" THEN left_step
    ELSE
    LET rest == process_ast(rhs) IN
    IF rest.tag # "Ok" THEN rest
    ELSE
    LET start      == StartPath(left_step.value, position)
        steps      == MergeSteps(start.list, rest.value)
        last_index == Len(steps)
    IN  IF InvalidSteps(steps) # {}
        THEN Err("InvalidStep", steps[FirstInvalidStep(steps)].position)
        ELSE Ok([start EXCEPT
                   !.list = [i \in 1..Len(steps) |-> RewriteStep(steps[i], i, last_index)],
                   !.keep_singleton_array = AnyKeepArray(steps)])

\* Mutant of PushOption: replaces the list instead of pushing onto it
PushOption_Overwrite(opt, filter) == << <<filter>> >>

\* Some(vec![filter]) when None, push otherwise
PushOption(opt, filter) ==
    IF opt = <<>> THEN << <<filter>> >> ELSE << Append(opt[1], filter) >>

process_predicate(position, lhs, rhs) ==
    LET r == process_ast(lhs) IN
    IF r.tag # "Ok" THEN r
    ELSE
    LET res        == r.value
        in_path    == res.kind = "Path"
        last_index == Len(res.list)
        node       == IF in_path THEN res.list[last_index] ELSE res
    IN  IF node.group_by # <<>>
        THEN Err("InvalidPredicate", position)
        ELSE
        LET c == process_ast(rhs) IN
        IF c.tag # "Ok" THEN c
        ELSE
        LET filter == Filter(c.value, position) IN
        IF in_path
        THEN Ok([res EXCEPT !.list[last_index].stages = PushOption(node.stages, filter)])
        ELSE Ok([res EXCEPT !.predicates = PushOption(node.predicates, filter)])

process_binary(node) ==
    CASE node.op = "Map" -> process_path(node.position, node.children[1], node.children[2])
      [] node.op = "Predicate" ->
           process_predicate(node.position, node.children[1], node.children[2])
      [] node.op = "ContextBind" -> Panic("ContextBind not yet implemented")
      [] node.op = "PositionalBind" -> Panic("PositionBind not yet implemented")
      [] OTHER ->
           LET l == process_ast(node.children[1]) IN
           IF l.tag # "Ok" THEN l
           ELSE LET r == process_ast(node.children[2]) IN
                IF r.tag # "Ok" THEN r
                ELSE Ok([node EXCEPT !.children = <<l.value, r.value>>])

\* Mutant of process_group_by: no check for an earlier grouping expression
process_group_by_NoCheck(position, lhs, rhs) ==
    LET r == process_ast(lhs) IN
    IF r.tag # "Ok" THEN r
    ELSE LET object == ProcessObject(rhs) IN
         IF object.tag # "Ok" THEN object
         ELSE Ok([r.value EXCEPT
                    !.group_by = << [position |-> position, object |-> object.value] >>])

process_group_by(position, lhs, rhs) ==
    LET r == process_ast(lhs) IN
    IF r.tag # "Ok" THEN r
    ELSE IF r.value.group_by # <<>>
         THEN Err("MultipleGroupBy", position)
         ELSE LET object == ProcessObject(rhs) IN
              IF object.tag # "Ok" THEN object
              ELSE Ok([r.value EXCEPT
                         !.group_by = << [position |-> position, object |-> object.value] >>])

process_order_by(position, lhs, rhs) ==
    LET l == process_ast(lhs) IN
    IF l.tag # "Ok" THEN l
    ELSE
    LET start == StartPath(l.value, position)
        terms == ProcessSortTerms(rhs)
    IN  IF terms.tag # "Ok" THEN terms
        ELSE Ok([start EXCEPT !.list = Append(start.list, Sort(terms.value, position))])

process_function(node) ==
    LET proc == process_ast(node.children[1]) IN
    IF proc.tag # "Ok" THEN proc
    ELSE LET args == ProcessVec(node.list) IN
         IF args.tag # "Ok" THEN args
         ELSE Ok([node EXCEPT !.children = <<proc.value>>, !.list = args.value])

process_lambda(node) ==
    LET body == process_ast(node.children[1]) IN
    IF body.tag # "Ok" THEN body
    ELSE Ok([node EXCEPT !.children = <<body.value>>])

\* The match of process_ast on node.kind
Dispatch(node) ==
    CASE node.kind = "Name"      -> process_name(node)
      [] node.kind = "Block"     -> process_block(node)
      [] node.kind = "Unary"     -> process_unary(node)
      [] node.kind = "Binary"    -> process_binary(node)
      [] node.kind = "GroupBy"   -> process_group_by(node.position, node.children[1], node.pairs)
      [] node.kind = "OrderBy"   -> process_order_by(node.position, node.children[1], node.terms)
      [] node.kind = "Function"  -> process_function(node)
      [] node.kind = "Lambda"    -> process_lambda(node)
      [] node.kind = "Ternary"   -> process_ternary(node)
      [] node.kind = "Transform" -> process_transform(node)
      [] node.kind = "Parent"    -> Panic("Parent not yet implemented")
      [] OTHER                   -> Ok(node)

\* Mutant of ReapplyKeepArray: the captured flag is not re-applied
ReapplyKeepArray_Dropped(keep_array, res) == res

\* if keep_array { result.keep_array = true }
ReapplyKeepArray(keep_array, res) ==
    IF keep_array THEN [res EXCEPT !.keep_array = TRUE] ELSE res

process_ast(node) ==
    LET r == Dispatch(node) IN
    IF r.tag # "Ok" THEN r ELSE Ok(ReapplyKeepArray(node.keep_array, r.value))


(***************************************************************************)
(* Input trees.  The parser builds them from the non-generated variants    *)
(* only, with every annotation at its Node::new value except keep_array.   *)
(* A tree is a seed expression wrapped in at most MaxDepth operators.  The *)
(* wrapper at depth d sits at position 10*d and the nodes it brings at     *)
(* 10*d+1..10*d+3; the seed's nodes sit at 1..4, so positions identify the *)
(* nodes of a tree.                                                        *)
(***************************************************************************)
KeepArray(n) == [n EXCEPT !.keep_array = TRUE]

\* [b]   and   $f(b)
ArrayAt(p)    == ArrayConstructor(<<Name("b", p + 1)>>, p)
FunctionAt(p) == Function(Var("f", p + 1), <<Name("b", p + 2)>>, p)

\* a  a[]  $x  $x[]  5  "lit"  true  null  [b]  $f(b)  %  *
Leaves ==
    { Name("a", 1), KeepArray(Name("a", 1)), Var("x", 1), KeepArray(Var("x", 1)),
      Number(5, 1), String("lit", 1), Bool(TRUE, 1), Null(1),
      ArrayAt(1), FunctionAt(1), Parent(1), Wildcard(1) }

\* (a)  {"k": v}  $x + a  $x ? a : 5  function($x){a}  |a|$u|  a.b  $x{k:v}
Compounds ==
    { Block(<<Name("a", 2)>>, 1),
      ObjectConstructor(<< <<String("k", 2), Name("v", 3)>> >>, 1),
      Binary("Add", Var("x", 1), Name("a", 3), 2),
      Ternary(<<Var("x", 1), Name("a", 3), Number(5, 4)>>, 2),
      Lambda(<<Var("x", 2)>>, Name("a", 3), 1),
      Transform(<<Name("a", 2), Var("u", 3)>>, 1),
      Binary("Map", Name("a", 1), Name("b", 3), 2),
      GroupBy(Var("x", 1), << <<Name("k", 3), Name("v", 4)>> >>, 2) }

Seeds == Leaves \cup Compounds

\* {k: v}   and   ^(>s)
GroupingAt(p) == << <<Name("k", p), Name("v", p + 1)>> >>
SortTermsAt(p) == << <<Name("s", p), TRUE>> >>

\* The operators the parser may wrap around a tree t, by their source text
RightStep(w, p) ==
    CASE w = "t.b"     -> Name("b", p)
      [] w = "t.5"     -> Number(5, p)
      [] w = "t.'lit'" -> String("lit", p)
      [] w = "t.[b]"   -> ArrayAt(p)
      [] w = "t.$x[]"  -> KeepArray(Var("x", p))
      [] w = "t.$f(b)" -> FunctionAt(p)

LeftStep(w, p) ==
    CASE w = "a.t"     -> Name("a", p)
      [] w = "[b].t"   -> ArrayAt(p)
      [] w = "$f(b).t" -> FunctionAt(p)

RightMaps == { "t.b", "t.5", "t.'lit'", "t.[b]", "t.$x[]", "t.$f(b)" }
LeftMaps  == { "a.t", "[b].t", "$f(b).t" }
Wrappers  == RightMaps \cup LeftMaps \cup { "t[c]", "t{k:v}", "t^(>s)", "-t", "t@$v", "t#$i" }

Wrap(w, t, d) ==
    LET p == 10 * d IN
    CASE w \in RightMaps -> Binary("Map", t, RightStep(w, p + 1), p)
      [] w \in LeftMaps  -> Binary("Map", LeftStep(w, p + 1), t, p)
      [] w = "t[c]"      -> Binary("Predicate", t, Name("c", p + 1), p)
      [] w = "t{k:v}"    -> GroupBy(t, GroupingAt(p + 1), p)
      [] w = "t^(>s)"    -> OrderBy(t, SortTermsAt(p + 1), p)
      [] w = "-t"        -> Minus(t, p)
      [] w = "t@$v"      -> Binary("ContextBind", t, Var("v", p + 1), p)
      [] w = "t#$i"      -> Binary("PositionalBind", t, Var("i", p + 1), p)

\* the seed wrapped in ws[1], then ws[2], ... : ws[Len(ws)] is the root
RECURSIVE Build(_, _, _)
Build(leaf, ws, d) ==
    IF d = 0 THEN leaf ELSE Wrap(ws[d], Build(leaf, ws, d - 1), d)

\* the parser may have set keep_array on the root as on any node
Init ==
    /\ \E leaf \in Seeds, d \in 0..MaxDepth, keep_array \in BOOLEAN :
         \E ws \in [1..d -> Wrappers] :
            input = IF keep_array THEN KeepArray(Build(leaf, ws, d)) ELSE Build(leaf, ws, d)
    /\ result = NoResult
    /\ pc = "parsed"

\* the caller hands the parsed tree to process_ast and receives its outcome
Normalize ==
    /\ pc = "parsed"
    /\ result' = process_ast(input)
    /\ pc' = "done"
    /\ UNCHANGED input

Next == Normalize

Spec == Init /\ [][Next]_vars


(***************************************************************************)
(* Vocabulary of the properties.                                           *)
(***************************************************************************)
Done     == pc = "done"
Returned == Done /\ result.tag = "Ok"
Tree     == result.value

RECURSIVE SubNodes(_)
\* every node of a tree: the node, its payloads and its annotations
SubNodes(n) ==
    LET Of(seq)    == UNION { SubNodes(seq[i]) : i \in DOMAIN seq }
        OfPairs(o) == UNION { SubNodes(o[i][1]) \cup SubNodes(o[i][2]) : i \in DOMAIN o }
        OfTerms(t) == UNION { SubNodes(t[i][1]) : i \in DOMAIN t }
        OfOpt(opt) == IF opt = <<>> THEN {} ELSE Of(opt[1])
    IN  {n} \cup Of(n.children) \cup Of(n.list) \cup OfPairs(n.pairs) \cup OfTerms(n.terms)
            \cup (IF n.group_by = <<>> THEN {} ELSE OfPairs(n.group_by[1].object))
            \cup OfOpt(n.predicates) \cup OfOpt(n.stages)

PathsOf(n) == { m \in SubNodes(n) : m.kind = "Path" }

IsArrayConstructor(n) == n.kind = "Unary" /\ n.op = "ArrayConstructor"
IsBinary(n, op)       == n.kind = "Binary" /\ n.op = op
Last(seq)             == seq[Len(seq)]

\* the list a filter lands in: the stages of the last step of a Path, else the predicates
FilterList(n) ==
    LET opt == IF n.kind = "Path" THEN Last(n.list).stages ELSE n.predicates
    IN  IF opt = <<>> THEN <<>> ELSE opt[1]

IsChainLeaf(n) == n.kind \in {"Name", "Function"}

RECURSIVE IsMapChain(_)
IsMapChain(n) ==
    /\ IsBinary(n, "Map")
    /\ \A i \in 1..2 : IsChainLeaf(n.children[i]) \/ IsMapChain(n.children[i])

RECURSIVE ChainLeaves(_)
ChainLeaves(n) ==
    IF IsChainLeaf(n) THEN <<n>> ELSE ChainLeaves(n.children[1]) \o ChainLeaves(n.children[2])

\* C1: a chain of Map operators over Name/Function leaves, in any nesting,
\* normalizes to one Path whose steps are the leaves in source order, a Name
\* leaf unchanged, and no step is itself a Path.
C1_MapChainFlattens ==
    Done /\ IsMapChain(input) =>
        /\ result.tag = "Ok"
        /\ Tree.kind = "Path"
        /\ LET leaves == ChainLeaves(input) IN
           /\ Len(Tree.list) = Len(leaves)
           /\ \A i \in DOMAIN leaves :
                /\ Tree.list[i].kind = leaves[i].kind
                /\ Tree.list[i].position = leaves[i].position
                /\ Tree.list[i].text = leaves[i].text
                /\ leaves[i].kind = "Name" => Tree.list[i] = leaves[i]
                /\ Tree.list[i].kind # "Path"

\* $f(b).(a.b): a right-nested chain with a Function leaf became three steps
C1_Witness ==
    /\ Returned
    /\ IsMapChain(input)
    /\ IsMapChain(input.children[2])
    /\ Len(Tree.list) = 3
    /\ Tree.list[1].kind = "Function"

\* C2: a Parent node, or a ContextBind / PositionalBind operator, makes
\* process_ast return an Unimplemented error value; the pass never panics.
C2_UnimplementedIsAnError ==
    Done =>
        /\ result.tag # "Panic"
        /\ (input.kind = "Parent" \/ IsBinary(input, "ContextBind")
                \/ IsBinary(input, "PositionalBind"))
             => result.tag = "Err" /\ result.error = "Unimplemented"

\* C3: expr{g}[cond] fails with InvalidPredicate at the position of the
\* Predicate node, for every source expression whose grouping normalizes,
\* a bare Name included.
C3_PredicateAfterGroupByRejected ==
    Done /\ IsBinary(input, "Predicate") /\ input.children[1].kind = "GroupBy"
         /\ process_ast(input.children[1]).tag = "Ok"
      => result = Err("InvalidPredicate", input.position)

IsGroupedNameDotName(n) ==
    /\ IsBinary(n, "Map")
    /\ n.children[1].kind = "GroupBy"
    /\ n.children[1].children[1].kind = "Name"
    /\ n.children[2].kind = "Name"

\* C4 as stated: in a{k:v}.b the grouping clause is on the first step a and
\* the Path node has none.
C4_GroupingOnFirstStep ==
    Done /\ IsGroupedNameDotName(input) =>
        /\ result.tag = "Ok"
        /\ Tree.kind = "Path"
        /\ Len(Tree.list) = 2
        /\ Tree.list[1].group_by # <<>>
        /\ Tree.group_by = <<>>

\* C4 amended: a{k:v}.b normalizes to a Path of the steps [a, b], both as
\* parsed; the grouping clause, with the position of the GroupBy node, is
\* carried by the Path node and by none of its steps.
C4_GroupingStaysOnPath ==
    Done /\ IsGroupedNameDotName(input) =>
        /\ result.tag = "Ok"
        /\ Tree.kind = "Path"
        /\ Tree.list = <<input.children[1].children[1], input.children[2]>>
        /\ \A i \in DOMAIN Tree.list : Tree.list[i].group_by = <<>>
        /\ Tree.group_by # <<>>
        /\ Tree.group_by[1].position = input.children[1].position
        /\ Len(Tree.group_by[1].object) = Len(input.children[1].pairs)

C4_Witness ==
    /\ Returned
    /\ IsGroupedNameDotName(input)
    /\ Len(Tree.list) = 2
    /\ Tree.list[1].text = "a" /\ Tree.list[2].text = "b"
    /\ Tree.group_by # <<>>

\* C5: in a returned tree cons_array is set only on an ArrayConstructor that
\* is the first or the last step of the Path containing it.
C5_ConsArrayOnlyFirstOrLast ==
    Returned =>
        \A n \in SubNodes(Tree) :
            n.cons_array =>
                /\ IsArrayConstructor(n)
                /\ \E path \in PathsOf(Tree) :
                       path.list[1] = n \/ Last(path.list) = n

\* C6: no step of any Path of a returned tree is a literal Number, Bool,
\* Null or String, whether the Path comes from a Map chain or from OrderBy.
C6_NoLiteralStep ==
    Returned =>
        \A path \in PathsOf(Tree) : \A i \in DOMAIN path.list :
            path.list[i].kind \notin {"Number", "Bool", "Null", "String"}

\* C7 as stated: a[cond] puts Filter(cond) in the predicates of the node for
\* a; a.b[cond] puts it in the stages of the last step and not on the Path;
\* chained filters build a two-element list.
C7_FilterOnNameIsPredicate ==
    Returned /\ IsBinary(input, "Predicate") =>
        /\ input.children[1].kind = "Name" =>
              \E n \in SubNodes(Tree) :
                  /\ n.kind = "Name" /\ n.position = input.children[1].position
                  /\ n.predicates # <<>>
                  /\ Last(n.predicates[1]).kind = "Filter"
        /\ IsMapChain(input.children[1]) =>
              /\ Tree.kind = "Path" /\ Tree.predicates = <<>>
              /\ Last(Tree.list).stages # <<>>
        /\ IsBinary(input.children[1], "Predicate") => Len(FilterList(Tree)) >= 2

\* C7 amended: Filter(cond), at the position of the Predicate node, is
\* appended to the stages of the last step when the normalized target is a
\* Path, which a bare Name a is, so that a[cond] yields Path([a]) with the
\* filter in the stages of a; it is appended to the predicates of the target
\* when that is not a Path (a Var).  A Path node gets no predicates, a
\* non-Path node no stages, and chained filters t[c1][c2] end the list with
\* Filter(c1) then Filter(c2).
C7_FilterPlacement ==
    Returned /\ IsBinary(input, "Predicate") =>
        LET target  == input.children[1]
            filters == FilterList(Tree)
        IN  /\ filters # <<>>
            /\ Last(filters).kind = "Filter"
            /\ Last(filters).position = input.position
            /\ Last(filters).children[1].kind = "Path"
            /\ Last(filters).children[1].list[1] = input.children[2]
            /\ Tree.kind = "Path" => Tree.predicates = <<>>
            /\ Tree.kind # "Path" => Tree.stages = <<>>
            /\ target.kind = "Name" => Tree.kind = "Path" /\ Len(Tree.list) = 1
            /\ IsMapChain(target) => Tree.kind = "Path"
            /\ target.kind = "Var" => Tree.kind = "Var"
            /\ IsBinary(target, "Predicate") =>
                  /\ Len(filters) >= 2
                  /\ filters[Len(filters) - 1].kind = "Filter"
                  /\ filters[Len(filters) - 1].position = target.position

\* a[c][c]: two filters in the stages of the only step of Path([a])
C7_Witness ==
    /\ Returned
    /\ IsBinary(input, "Predicate")
    /\ IsBinary(input.children[1], "Predicate")
    /\ input.children[1].children[1].kind = "Name"
    /\ Tree.kind = "Path"
    /\ Len(FilterList(Tree)) = 2

\* C8: when process_ast succeeds on a node with keep_array set, the returned
\* node has keep_array set, whatever the shape change.
C8_KeepArrayPreserved ==
    Returned /\ input.keep_array => Tree.keep_array

\* -5 with keep_array on the Minus node: folded into a Number that keeps the flag
C8_Witness ==
    /\ Returned
    /\ input.keep_array
    /\ input.kind = "Unary" /\ input.op = "Minus"
    /\ Tree.kind = "Number" /\ Tree.num = -5
    /\ Tree.keep_array

IsDoubleGroupBy(n) == n.kind = "GroupBy" /\ n.children[1].kind = "GroupBy"

\* C9 as stated: expr{g1}{g2} fails with MultipleGroupBy at the position of
\* the outer GroupBy, for every source expression on which the pass does not
\* panic.
C9_OuterGroupByRejected ==
    Done /\ IsDoubleGroupBy(input) /\ result.tag # "Panic"
      => result = Err("MultipleGroupBy", input.position)

\* C9 amended: when expr{g1} alone normalizes, expr{g1}{g2} fails with
\* MultipleGroupBy at the position of the outer GroupBy and returns no tree;
\* when expr{g1} fails, expr{g1}{g2} fails the same way, with the error and
\* position of expr{g1}.
C9_SecondGroupByRejected ==
    Done /\ IsDoubleGroupBy(input) =>
        LET inner == process_ast(input.children[1])
        IN  IF inner.tag = "Ok"
            THEN result = Err("MultipleGroupBy", input.position)
            ELSE result = inner

C9_Witness ==
    /\ Done
    /\ IsDoubleGroupBy(input)
    /\ input.children[1].children[1].kind = "Name"
    /\ result = Err("MultipleGroupBy", input.position)

\* C10: on every Path of a returned tree keep_singleton_array is set exactly
\* when a step of the Path has keep_array set.
C10_KeepSingletonArrayIsAnyKeepArray ==
    Returned =>
        \A path \in PathsOf(Tree) :
            path.keep_singleton_array <=> \E i \in DOMAIN path.list : path.list[i].keep_array

====
